---- MODULE Spec2Model ----
(***************************************************************************)
(* Model of srcfl/zap-flasher, src/flasher.py: the sequential flashing     *)
(* loop of ESP32SequentialFlasher (run_sequential_flashing), one device    *)
(* cycle (process_device), the extraction of serial number, public key and *)
(* firmware version from the boot output (read_serial_output), and the     *)
(* CSV record store (append_to_csv) and JSON summary (save_json_results).  *)
(*                                                                         *)
(* The environment (the port, the esptool subprocess, the device's output, *)
(* the file system, the operator's Ctrl+C) is a nondeterministic choice at *)
(* each point where the code observes it.                                  *)
(***************************************************************************)
EXTENDS Integers, Sequences, FiniteSets, TLC

(***************************************************************************)
(* Bounds of the model.                                                    *)
(***************************************************************************)
\* Device cycles started in one run.
MaxDevices == 2
\* Polls of wait_for_device_disconnection before its 120 s timeout expires
\* (240 polls of 0.5 s in the code).
MaxDisconnectPolls == 1
\* Iterations of the read loop of read_serial_output before self.timeout
\* expires (about 300 iterations of 0.1 s for the default 30 s).
ReadPolls == 6
\* Polls of the connection wait that the history counter connect_polls
\* counts; the loop of lines 632-633 itself states no limit.
MaxConnectPolls == 3

\* for i in range(5): the port-recovery retries of process_device.
PortRetries == 5

(***************************************************************************)
(* Values.  Python's None is a distinguished value of each field's type,   *)
(* so that TLC can compare it with the values the field takes.             *)
(***************************************************************************)
NoneStr == "None"
NoneKey == [hex |-> "None", len |-> 0]
NoneVer == <<>>

\* Truthiness of an optional string: neither None nor ''.
TruthyStr(s) == s # NoneStr /\ s # ""
TruthyKey(k) == k # NoneKey /\ k.len > 0
TruthyVer(v) == v # NoneVer /\ Len(v) > 0

(***************************************************************************)
(* Lines of device output.  A line is the sequence of its whitespace-      *)
(* separated tokens; a token is a word, a "zap-<hex>" serial token, a run  *)
(* of hex digits (one digit repeated len times), or a version-like token   *)
(* (kept as its sequence of characters, as '.' is replaced in file names). *)
(***************************************************************************)
Word(s) == [kind |-> "word", text |-> s, len |-> 0, chars |-> <<s>>]
Zap(s) == [kind |-> "zap", text |-> s, len |-> 0, chars |-> <<s>>]
Hex(d, n) == [kind |-> "hex", text |-> d, len |-> n, chars |-> <<d>>]
Ver(cs) == [kind |-> "ver", text |-> "", len |-> 0, chars |-> cs]

\* str.lower() / re.IGNORECASE on the words of the model's vocabulary.
Lower(s) ==
  CASE s = "Serial" -> "serial"
    [] s = "Number:" -> "number:"
    [] s = "Public" -> "public"
    [] s = "Key:" -> "key:"
    [] s = "Invalid" -> "invalid"
    [] s = "Header" -> "header"
    [] s = "Firmware" -> "firmware"
    [] s = "Version:" -> "version:"
    [] s = "Booting" -> "booting"
    [] OTHER -> s

IsWord(line, i, w) ==
  /\ i >= 1 /\ i <= Len(line)
  /\ line[i].kind = "word"
  /\ Lower(line[i].text) = w

\* The least element of a non-empty set of integers (re.search returns the
\* leftmost match).
MinOf(S) == CHOOSE x \in S : \A y \in S : x <= y

(***************************************************************************)
(* The pattern families of read_serial_output, on tokenised lines.  Each   *)
(* operator gives group(1) of the first pattern of the family that matches *)
(* the line (patterns are tried in order, the match of a pattern is the    *)
(* leftmost one), or None when no pattern matches.                         *)
(***************************************************************************)
\* Positions i where the two-word label w1 w2 is followed by a token of
\* the set of kinds K with a hex run of at least n digits.
After2(line, w1, w2, K, n) ==
  {i \in 1..Len(line) :
     /\ IsWord(line, i, w1) /\ IsWord(line, i + 1, w2)
     /\ i + 2 <= Len(line)
     /\ line[i + 2].kind \in K /\ line[i + 2].len >= n}

\* Positions i where a word of the set W (the words the label pattern
\* matches a suffix of) is followed by such a token.
After1(line, W, K, n) ==
  {i \in 1..Len(line) :
     /\ line[i].kind = "word" /\ Lower(line[i].text) \in W
     /\ i + 1 <= Len(line)
     /\ line[i + 1].kind \in K /\ line[i + 1].len >= n}

\* Positions of tokens of kind k with a hex run of at least n digits.
Bare(line, k, n) ==
  {i \in 1..Len(line) : line[i].kind = k /\ line[i].len >= n}

\* serial_patterns: 'serial number:\s*(zap-[A-Fa-f0-9]+)',
\* 'device id:\s*(zap-...)', 'serial:\s*(zap-...)', '(zap-[A-Fa-f0-9]+)'.
SerialMatch(line) ==
  LET p1 == After2(line, "serial", "number:", {"zap"}, 0)
      p2 == After2(line, "device", "id:", {"zap"}, 0)
      p3 == After1(line, {"serial:"}, {"zap"}, 0)
      p4 == Bare(line, "zap", 0)
  IN  IF p1 # {} THEN line[MinOf(p1) + 2].text
      ELSE IF p2 # {} THEN line[MinOf(p2) + 2].text
      ELSE IF p3 # {} THEN line[MinOf(p3) + 1].text
      ELSE IF p4 # {} THEN line[MinOf(p4)].text
      ELSE NoneStr

\* key_patterns: 'public key:\s*([A-Fa-f0-9]{32,})', 'pubkey:\s*(...)',
\* 'key:\s*(...)', '([A-Fa-f0-9]{64})', '([A-Fa-f0-9]{32})'.  A labeled
\* pattern captures the whole hex run (the quantifier is greedy); the bare
\* patterns capture exactly the first 64, or the first 32, digits of a run.
KeyOf(tok, n) == [hex |-> tok.text, len |-> n]

KeyMatch(line) ==
  LET p1 == After2(line, "public", "key:", {"hex"}, 32)
      p2 == After1(line, {"pubkey:"}, {"hex"}, 32)
      p3 == After1(line, {"key:", "pubkey:"}, {"hex"}, 32)
      p4 == Bare(line, "hex", 64)
      p5 == Bare(line, "hex", 32)
  IN  IF p1 # {} THEN KeyOf(line[MinOf(p1) + 2], line[MinOf(p1) + 2].len)
      ELSE IF p2 # {} THEN KeyOf(line[MinOf(p2) + 1], line[MinOf(p2) + 1].len)
      ELSE IF p3 # {} THEN KeyOf(line[MinOf(p3) + 1], line[MinOf(p3) + 1].len)
      ELSE IF p4 # {} THEN KeyOf(line[MinOf(p4)], 64)
      ELSE IF p5 # {} THEN KeyOf(line[MinOf(p5)], 32)
      ELSE NoneKey

VersionMatch_NoLookbehind(line) ==
  LET p == After2(line, "firmware", "version:", {"ver", "zap"}, 0)
  IN  IF p # {} THEN line[MinOf(p) + 2].chars ELSE NoneVer

\* r'(?<!coex )firmware version:\s*([A-Za-z0-9._-]+)': the label, not
\* directly preceded by the word coex, followed by a version-like token.
VersionMatch(line) ==
  LET p == {i \in After2(line, "firmware", "version:", {"ver", "zap"}, 0) :
              ~IsWord(line, i - 1, "coex")}
  IN  IF p # {} THEN line[MinOf(p) + 2].chars ELSE NoneVer

\* any(indicator in line.lower() for indicator in ['app_main', 'hello world',
\* 'setup()', 'ready', 'starting', 'boot', 'esp32', 'chip revision']): the
\* words of the vocabulary that contain an indicator, and the two-word ones.
BootWords == {"app_main", "setup()", "ready", "starting", "boot", "booting",
              "esp32"}

HasBootIndicator(line) ==
  \E i \in 1..Len(line) :
     \/ line[i].kind = "word" /\ Lower(line[i].text) \in BootWords
     \/ IsWord(line, i, "hello") /\ IsWord(line, i + 1, "world")
     \/ IsWord(line, i, "chip") /\ IsWord(line, i + 1, "revision")

HasInvalidHeaderLower_AtStart(line) ==
  IsWord(line, 1, "invalid") /\ IsWord(line, 2, "header")

\* 'invalid header' in line.lower()
HasInvalidHeaderLower(line) ==
  \E i \in 1..Len(line) :
     IsWord(line, i, "invalid") /\ IsWord(line, i + 1, "header")

\* 'invalid header' in '\n'.join(output_lines): the same substring, but in
\* the lines as captured (no lower()).
HasInvalidHeaderRaw(lines) ==
  \E k \in 1..Len(lines) : \E i \in 1..Len(lines[k]) :
     /\ i + 1 <= Len(lines[k])
     /\ lines[k][i].kind = "word" /\ lines[k][i].text = "invalid"
     /\ lines[k][i + 1].kind = "word" /\ lines[k][i + 1].text = "header"

(***************************************************************************)
(* The body of the read loop for one non-empty line (lines 380-445): the   *)
(* locals of read_serial_output before and after.  boot_issue is the       *)
(* warning of lines 391-393, printed for the line at hand; boot_warning is *)
(* the one of lines 468-469, printed after the loop.                       *)
(***************************************************************************)
NoLocals ==
  [output_lines |-> <<>>, device_id |-> NoneStr, public_key |-> NoneKey,
   firmware_version |-> NoneVer, boot_success |-> FALSE,
   boot_issue |-> FALSE, boot_warning |-> FALSE]

\* The tokens of a line that a labeled pattern of key_patterns captures
\* (lines 412-414), and those a bare pattern captures (lines 415-416).
KeyLabeled(line) ==
  {i + 2 : i \in After2(line, "public", "key:", {"hex"}, 32)}
    \cup {i + 1 : i \in After1(line, {"key:", "pubkey:"}, {"hex"}, 32)}

KeyBare(line) == Bare(line, "hex", 32)

\* The tokens a labeled pattern of serial_patterns captures (lines
\* 398-400), and those the bare pattern captures (line 401).
SerialLabeled(line) ==
  {i + 2 : i \in After2(line, "serial", "number:", {"zap"}, 0)}
    \cup {i + 2 : i \in After2(line, "device", "id:", {"zap"}, 0)}
    \cup {i + 1 : i \in After1(line, {"serial:"}, {"zap"}, 0)}

SerialBare(line) == Bare(line, "zap", 0)

ProcessLine_LabeledWins(rd, line) ==
  [output_lines |-> Append(rd.output_lines, line),
   boot_success |-> rd.boot_success \/ HasBootIndicator(line),
   boot_issue |-> rd.boot_issue \/ HasInvalidHeaderLower(line),
   boot_warning |-> rd.boot_warning,
   device_id |-> IF ~TruthyStr(rd.device_id) \/ SerialLabeled(line) # {}
                 THEN SerialMatch(line)
                 ELSE rd.device_id,
   public_key |-> IF ~TruthyKey(rd.public_key) \/ KeyLabeled(line) # {}
                  THEN KeyMatch(line)
                  ELSE rd.public_key,
   firmware_version |-> IF ~TruthyVer(rd.firmware_version)
                        THEN VersionMatch(line)
                        ELSE rd.firmware_version]

ProcessLine_Overwriting(rd, line) ==
  [output_lines |-> Append(rd.output_lines, line),
   boot_success |-> rd.boot_success \/ HasBootIndicator(line),
   boot_issue |-> rd.boot_issue \/ HasInvalidHeaderLower(line),
   boot_warning |-> rd.boot_warning,
   device_id |-> IF TruthyStr(SerialMatch(line)) THEN SerialMatch(line)
                 ELSE rd.device_id,
   public_key |-> IF ~TruthyKey(rd.public_key) THEN KeyMatch(line)
                  ELSE rd.public_key,
   firmware_version |-> IF ~TruthyVer(rd.firmware_version)
                        THEN VersionMatch(line)
                        ELSE rd.firmware_version]

ProcessLine(rd, line) ==
  [output_lines |-> Append(rd.output_lines, line),
   boot_success |-> rd.boot_success \/ HasBootIndicator(line),
   boot_issue |-> rd.boot_issue \/ HasInvalidHeaderLower(line),
   boot_warning |-> rd.boot_warning,
   device_id |-> IF ~TruthyStr(rd.device_id) THEN SerialMatch(line)
                 ELSE rd.device_id,
   public_key |-> IF ~TruthyKey(rd.public_key) THEN KeyMatch(line)
                  ELSE rd.public_key,
   firmware_version |-> IF ~TruthyVer(rd.firmware_version)
                        THEN VersionMatch(line)
                        ELSE rd.firmware_version]

AllFound_SerialAndKey(rd) ==
  TruthyStr(rd.device_id) /\ TruthyKey(rd.public_key)

\* Line 443: if device_id and public_key and firmware_version: break
AllFound(rd) ==
  TruthyStr(rd.device_id) /\ TruthyKey(rd.public_key)
    /\ TruthyVer(rd.firmware_version)

\* Lines 466-469, after the loop: the boot status that is printed.
FinalStatus(rd) ==
  [rd EXCEPT !.boot_warning =
               ~rd.boot_success /\ HasInvalidHeaderRaw(rd.output_lines)]

\* The dict returned at lines 471-479.
SerialData(rd) ==
  [device_id |-> rd.device_id, public_key |-> rd.public_key,
   firmware_version |-> rd.firmware_version,
   output_lines |-> rd.output_lines, boot_success |-> rd.boot_success]

(***************************************************************************)
(* Device output.  A script is what one device prints after the reset, one *)
(* element per iteration of the read loop: a line (possibly empty) when    *)
(* ser.in_waiting > 0, Idle when no data is waiting.  After the script's   *)
(* end no data is waiting.                                                 *)
(***************************************************************************)
Idle == <<[kind |-> "idle", text |-> "", len |-> 0, chars |-> <<>>]>>

LineBooting == <<Word("booting")>>
LineSerial == <<Word("Serial"), Word("Number:"), Zap("zap-00ff")>>
LineCoex == <<Word("coex"), Word("firmware"), Word("version:"),
              Ver(<<"831ec70">>)>>
LineVersion == <<Word("firmware"), Word("version:"),
                 Ver(<<"1", ".", "2", ".", "3">>)>>
LineKey == <<Word("Public"), Word("Key:"), Hex("a", 64)>>
LineInvalid == <<Word("invalid"), Word("header")>>
LineInvalidMid == <<Word("error:"), Word("invalid"), Word("header")>>
LineBareSerial == <<Word("id"), Zap("zap-00aa")>>
LineBareKey == <<Hex("b", 70)>>
LineSerialC == <<Word("serial:"), Zap("zap-00cc")>>
LineVersionC == <<Word("Firmware"), Word("Version:"),
                  Ver(<<"2", ".", "0">>)>>
LineKeyC == <<Word("pubkey:"), Hex("c", 40)>>

Scripts ==
  { <<LineBooting, LineSerial, LineCoex, LineVersion, LineKey>>,
    <<LineBareSerial, Idle, LineBareKey, LineKey>>,
    <<LineSerialC, LineVersionC, LineVersion, <<>>, LineSerial, LineKeyC>>,
    <<LineInvalid>>,
    <<LineBooting, LineSerial, LineInvalidMid, Idle, Idle, Idle, Idle, Idle,
      Idle, LineKey>> }

(***************************************************************************)
(* Dicts and files.                                                        *)
(***************************************************************************)
\* dict.get(key, default)
Get(d, k, default) == IF k \in DOMAIN d THEN d[k] ELSE default

\* d[k] = v
Put(d, k, v) == [x \in DOMAIN d \cup {k} |-> IF x = k THEN v ELSE d[x]]

PortName == "port"
Timestamp == "timestamp"

\* The result dict process_device starts from (lines 510-519).
NewResult_AllFields(n) ==
  [device_number |-> n, port |-> PortName, success |-> FALSE,
   serial_number |-> NoneStr, public_key |-> NoneKey,
   firmware_version |-> NoneVer, output_lines |-> <<>>,
   errors |-> <<>>, warnings |-> <<>>, timestamp |-> Timestamp]

NewResult(n) ==
  [device_number |-> n, port |-> PortName, success |-> FALSE,
   serial_number |-> NoneStr, public_key |-> NoneKey,
   errors |-> <<>>, warnings |-> <<>>, timestamp |-> Timestamp]

\* version_str = result['firmware_version'].replace('.', '_')
ReplaceDots(v) == [j \in 1..Len(v) |-> IF v[j] = "." THEN "_" ELSE v[j]]

\* f"{output_file_base}_V_{version_str}": a name is the sequence of its parts.
VersionedBase(base, v) == base \o <<"_V_">> \o ReplaceDots(v)
CsvPath(base) == Append(base, ".csv")
JsonPath(base) == Append(base, ".json")

\* flash_results_<timestamp>, the base name at the start of the run.
InitialBase == <<"flash_results_", Timestamp>>

csv_headers ==
  <<"ecc_serial", "mac_eth0", "mac_wlan0", "helium_public_key",
    "full_public_key">>
HeaderRow == [header |-> csv_headers]

\* The dict writer.writerow() is given (lines 702-711).
CsvRow(r) ==
  [ecc_serial |-> Get(r, "serial_number", ""), mac_eth0 |-> "",
   mac_wlan0 |-> "", helium_public_key |-> "",
   full_public_key |-> Get(r, "public_key", NoneKey)]

\* Path.exists() / Path.is_file()
Exists(fs, path) == path \in DOMAIN fs

Rename_Emptying(fs, old, new) ==
  [q \in (DOMAIN fs \ {old}) \cup {new} |->
     IF q = new THEN <<HeaderRow>> ELSE fs[q]]

\* Path(old).rename(new)
Rename(fs, old, new) ==
  [q \in (DOMAIN fs \ {old}) \cup {new} |->
     IF q = new THEN fs[old] ELSE fs[q]]

WriteRow_Truncating(r, path, fs) ==
  [q \in DOMAIN fs \cup {path} |->
     IF q = path THEN <<HeaderRow, CsvRow(r)>> ELSE fs[q]]

\* open(path, 'a'), the header when the file did not exist, and the row.
WriteRow(r, path, fs) ==
  LET before == IF Exists(fs, path) THEN fs[path] ELSE <<HeaderRow>>
  IN  [q \in DOMAIN fs \cup {path} |->
         IF q = path THEN Append(before, CsvRow(r)) ELSE fs[q]]

\* How the try block of lines 696-716 can end: the row is written; open()
\* raises and nothing is on disk; or open() has succeeded, which creates
\* the file when it did not exist, and the write or the flush at the end of
\* the with block raises before anything reached the file.
IoOutcomes == {"ok", "open_failed", "write_failed"}

\* open(path, 'a') alone: a file that did not exist is created empty.
Touch(path, fs) ==
  [q \in DOMAIN fs \cup {path} |-> IF Exists(fs, q) THEN fs[q] ELSE <<>>]

\* append_to_csv: nothing for a result that is no success; an exception of
\* open or of the write is caught and printed.
append_to_csv(r, path, fs, io) ==
  IF ~Get(r, "success", FALSE) THEN fs
  ELSE IF io = "open_failed" THEN fs
  ELSE IF io = "write_failed" THEN Touch(path, fs)
  ELSE WriteRow(r, path, fs)

\* The data rows of a file (all but the header row).
DataRows(content) ==
  SelectSeq(content, LAMBDA row : "header" \notin DOMAIN row)

\* What read_serial_output returned is None (line 489), or a dict.
NoData == [none |-> TRUE]
IsData(sd) == "none" \notin DOMAIN sd

Classify_OneError(r, sd) ==
  IF IsData(sd)
  THEN LET r1 == Put(Put(Put(Put(r, "serial_number", sd.device_id),
                             "public_key", sd.public_key),
                         "firmware_version", sd.firmware_version),
                     "output_lines", sd.output_lines)
       IN  IF TruthyStr(r1.serial_number) /\ TruthyKey(r1.public_key)
           THEN Put(r1, "success", TRUE)
           ELSE Put(r1, "errors",
                    Append(r1.errors, "Failed to read serial output"))
  ELSE Put(r, "errors", Append(r.errors, "Failed to read serial output"))

Classify_SilentFailure(r, sd) ==
  IF IsData(sd)
  THEN LET r1 == Put(Put(Put(Put(r, "serial_number", sd.device_id),
                             "public_key", sd.public_key),
                         "firmware_version", sd.firmware_version),
                     "output_lines", sd.output_lines)
       IN  IF TruthyStr(r1.serial_number) /\ TruthyKey(r1.public_key)
           THEN Put(r1, "success", TRUE)
           ELSE r1
  ELSE Put(r, "errors", Append(r.errors, "Failed to read serial output"))

Classify_EitherField(r, sd) ==
  IF IsData(sd)
  THEN LET r1 == Put(Put(Put(Put(r, "serial_number", sd.device_id),
                             "public_key", sd.public_key),
                         "firmware_version", sd.firmware_version),
                     "output_lines", sd.output_lines)
       IN  IF TruthyStr(r1.serial_number) \/ TruthyKey(r1.public_key)
           THEN Put(r1, "success", TRUE)
           ELSE Put(r1, "errors",
                    Append(r1.errors,
                           "Could not extract serial number or public key from device output"))
  ELSE Put(r, "errors", Append(r.errors, "Failed to read serial output"))

(***************************************************************************)
(* Classification of a device cycle (lines 558-583): serial_data is the    *)
(* dict read_serial_output returned, or None (data = FALSE).               *)
(***************************************************************************)
Classify(r, sd) ==
  IF IsData(sd)
  THEN LET r1 == Put(Put(Put(Put(r, "serial_number", sd.device_id),
                             "public_key", sd.public_key),
                         "firmware_version", sd.firmware_version),
                     "output_lines", sd.output_lines)
       IN  IF TruthyStr(r1.serial_number) /\ TruthyKey(r1.public_key)
           THEN Put(r1, "success", TRUE)
           ELSE Put(r1, "errors",
                    Append(r1.errors,
                           "Could not extract serial number or public key from device output"))
  ELSE Put(r, "errors", Append(r.errors, "Failed to read serial output"))

(***************************************************************************)
(* State.                                                                  *)
(***************************************************************************)
VARIABLES
  pc,                     \* where run_sequential_flashing stands
  erase_first,            \* argument of the run (--erase)
  device_number,          \* local of run_sequential_flashing
  all_results,            \* local of run_sequential_flashing
  output_file_base,       \* local of run_sequential_flashing
  csv_output_file,        \* local of run_sequential_flashing
  firmware_version_found, \* local of run_sequential_flashing
  result,                 \* the result dict of the current device cycle
  retry,                  \* i of the port-recovery loop of process_device
  polls,                  \* iterations of wait_for_device_disconnection
  ser,                    \* the handle read_serial_output holds: open or not
  rd,                     \* locals of read_serial_output
  t,                      \* iterations of the read loop so far
  script,                 \* what the device has still to print
  serial_data,            \* what read_serial_output returned
  files,                  \* the CSV files on disk: path -> rows
  summary,                \* the JSON files written: <<path, results>>, in order
  calls,                  \* history: the steps the cycle in progress has
                          \* entered (emptied once its result is persisted)
  cycles,                 \* history: the device cycles that have returned
  flash_failed,           \* history: the write step of this cycle failed
  erase_failed,           \* history: the erase step of this cycle failed
  write_failed,           \* history: device numbers whose CSV write raised
  rename_failed,          \* history: the rename of the CSV file raised
  stop,                   \* history: why the run ended
  raised,                 \* history: the steps of the cycle in progress in
                          \* which an exception was raised
  probes,                 \* history: what the probes of the port have
                          \* said in the port recovery of the cycle in
                          \* progress (emptied when the read starts)
  connect_polls,          \* history: the polls of the connection wait
  probe,                  \* history: the last probe of the port recovery:
                          \* the state of the port and what the probe said
  flash_outcome,          \* history: how flash_firmware ended in this cycle
  same_device             \* environment: the device at the port is still
                          \* the one of the cycle before (it was never
                          \* unplugged); kept until the first step of the
                          \* next cycle

vars ==
  <<pc, erase_first, device_number, all_results, output_file_base,
    csv_output_file, firmware_version_found, result, retry, polls, ser, rd,
    t, script, serial_data, files, summary, calls, cycles, flash_failed,
    erase_failed, write_failed, rename_failed, stop, raised, probes,
    connect_polls, probe, flash_outcome, same_device>>

runVars ==
  <<erase_first, device_number, all_results, output_file_base,
    csv_output_file, firmware_version_found>>
readVars == <<ser, rd, t, script, serial_data>>
diskVars == <<files, summary>>
histVars == <<cycles, write_failed, rename_failed, stop>>
cycleHist == <<raised, probes, probe, flash_outcome>>
waitHist == <<connect_polls, same_device>>

\* No probe of the port recovery has been made in this cycle.
NoProbe == [port |-> "none", said |-> "none"]

\* Why the run ended, and where the run stood when it did.
Running == [why |-> "running", at |-> "running"]

Init ==
  /\ pc = "wait_connect"
  /\ erase_first \in BOOLEAN
  /\ device_number = 1
  /\ all_results = <<>>
  /\ output_file_base = InitialBase
  /\ csv_output_file = CsvPath(InitialBase)
  /\ firmware_version_found = FALSE
  /\ result = <<>>
  /\ retry = 0
  /\ polls = 0
  /\ ser = "closed"
  /\ rd = NoLocals
  /\ t = 0
  /\ script = <<>>
  /\ serial_data = NoData
  /\ files = <<>>
  /\ summary = <<>>
  /\ calls = <<>>
  /\ cycles = 0
  /\ flash_failed = FALSE
  /\ erase_failed = FALSE
  /\ write_failed = {}
  /\ rename_failed = FALSE
  /\ stop = Running
  /\ raised = {}
  /\ probes = <<>>
  /\ connect_polls = 0
  /\ probe = NoProbe
  /\ flash_outcome = "none"
  /\ same_device = FALSE

(***************************************************************************)
(* check_port_ready, lines 491-502.                                        *)
(***************************************************************************)
\* check_port_ready: True, False, or an exception it does not catch.
ProbeOutcomes == {"ready", "not_ready", "error"}

\* What check_port_ready can find: the port is not in the list of comports
\* (absent: there is no such device; unlisted: the path could be opened but
\* is not in the list), it is in the list and serial.Serial raises
\* SerialException or FileNotFoundError (busy) or PermissionError (denied),
\* it is in the list and opens (openable), or something else is raised
\* (broken).
PortStates == {"absent", "unlisted", "busy", "denied", "openable", "broken"}
Listed(port) == port \notin {"absent", "unlisted"}

check_port_ready_Uncaught(port) ==
  IF ~Listed(port) THEN "not_ready"
  ELSE IF port = "openable" THEN "ready"
  ELSE "error"

\* Lines 493-502.
check_port_ready(port) ==
  IF ~Listed(port) THEN "not_ready"
  ELSE IF port = "openable" THEN "ready"
  ELSE IF port \in {"busy", "denied"} THEN "not_ready"
  ELSE "error"

\* The run loop has no handler for an exception of a probe: its probes
\* (lines 632 and 249) are followed for the states of the port in which
\* check_port_ready returns.
Returns == {port \in PortStates : check_port_ready(port) # "error"}

(***************************************************************************)
(* run_sequential_flashing, lines 631-638: the connection wait and the     *)
(* call of process_device (lines 510-519).                                 *)
(***************************************************************************)
\* while not self.check_port_ready(port): time.sleep(0.5)
\* The loop has no deadline: a probe that says not ready is followed by
\* another probe, however many there have been.
Detect ==
  /\ pc = "wait_connect"
  /\ device_number <= MaxDevices
  /\ \E port \in Returns :
       IF check_port_ready(port) = "ready"
       THEN /\ pc' = "erase"
            /\ result' = NewResult(device_number)
            /\ calls' = <<>>
            /\ flash_failed' = FALSE
            /\ erase_failed' = FALSE
            /\ connect_polls' = 0
            /\ UNCHANGED same_device
       ELSE /\ connect_polls' = IF connect_polls < MaxConnectPolls
                                THEN connect_polls + 1
                                ELSE connect_polls
            /\ same_device' = (same_device /\ Listed(port))
            /\ UNCHANGED <<pc, result, calls, flash_failed, erase_failed>>
  /\ UNCHANGED <<runVars, retry, polls, readVars, diskVars, histVars,
                 cycleHist>>

(***************************************************************************)
(* process_device, lines 524-554.                                          *)
(***************************************************************************)
EraseResult_AsError(r, ok) ==
  IF ok THEN r
  ELSE Put(r, "errors", Append(r.errors, "Flash erase failed"))

\* erase_flash: the tool succeeds, the tool fails (return False), or an
\* exception is raised inside erase_flash (the tool is missing, it times
\* out), which erase_flash catches at lines 289-291 (return False).
EraseOutcomes == {"ok", "failed", "raised"}

\* Step 2: erase_flash returns True or False (it catches every exception);
\* a failed erase is a warning.
EraseResult(r, ok) ==
  IF ok THEN r
  ELSE Put(r, "warnings",
           Append(r.warnings,
                  "Flash erase failed, but continuing with flashing (this is normal for fresh devices)"))

Erase ==
  /\ pc = "erase"
  /\ IF erase_first
     THEN \E outcome \in EraseOutcomes :
            /\ result' = EraseResult(result, outcome = "ok")
            /\ erase_failed' = (outcome # "ok")
            /\ calls' = Append(calls, "erase_flash")
            /\ raised' = IF outcome = "raised"
                         THEN raised \cup {"erase_flash"}
                         ELSE raised
     ELSE UNCHANGED <<result, erase_failed, calls, raised>>
  /\ pc' = "flash"
  /\ same_device' = FALSE
  /\ UNCHANGED <<runVars, retry, polls, readVars, diskVars, histVars,
                 flash_failed, probes, probe, flash_outcome, connect_polls>>

\* Step 3: flash_firmware.  The port has vanished (no subprocess), the
\* tool fails, an exception is raised inside flash_firmware (the tool is
\* missing, it times out) and caught at lines 341-343, or the tool succeeds.
FlashOutcomes == {"port_gone", "tool_failed", "raised", "ok"}

FlashSteps_NoPortCheck(outcome) == <<"flash_firmware", "write_flash">>

\* Lines 301-304 and 306-333: flash_firmware returns before the esptool
\* subprocess (write_flash) is run when the port no longer exists.
FlashSteps(outcome) ==
  IF outcome = "port_gone" THEN <<"flash_firmware">>
  ELSE <<"flash_firmware", "write_flash">>

AfterFlash_ReadAnyway(ok) == "port_check"

AfterFlash_Again(ok) == IF ok THEN "port_check" ELSE "flash"

\* Where process_device goes after flash_firmware returned.
AfterFlash(ok) == IF ok THEN "port_check" ELSE "return"

Flash ==
  /\ pc = "flash"
  /\ \E outcome \in FlashOutcomes :
       /\ calls' = calls \o FlashSteps(outcome)
       /\ flash_failed' = (outcome # "ok")
       /\ result' = IF outcome = "ok" THEN result
                    ELSE Put(result, "errors",
                             Append(result.errors, "Firmware flash failed"))
       /\ raised' = IF outcome = "raised"
                    THEN raised \cup {"flash_firmware"}
                    ELSE raised
       /\ flash_outcome' = outcome
       /\ pc' = AfterFlash(outcome = "ok")
  /\ UNCHANGED <<runVars, retry, polls, readVars, diskVars, histVars,
                 erase_failed, probes, probe, waitHist>>

\* Lines 591-592: except Exception as e: the generic error.
Unexpected(r) ==
  Put(r, "errors", Append(r.errors, "Unexpected error"))

AfterUnexpected_Propagates == "finalize"

\* Where process_device goes from its except clause: to its return
\* (lines 594-598).
AfterUnexpected == "return"

\* Line 544: the first probe after flashing.
PortCheck ==
  /\ pc = "port_check"
  /\ calls' = Append(calls, "check_port_ready")
  /\ \E port \in PortStates : LET outcome == check_port_ready(port) IN
       /\ probes' = Append(probes, outcome)
       /\ probe' = [port |-> port, said |-> outcome]
       /\ CASE outcome = "ready" ->
                 /\ pc' = "read_open"
                 /\ UNCHANGED <<result, retry, raised>>
            [] outcome = "not_ready" ->
                 /\ pc' = "port_retry"
                 /\ retry' = 0
                 /\ UNCHANGED <<result, raised>>
            [] outcome = "error" ->
                 /\ pc' = AfterUnexpected
                 /\ result' = Unexpected(result)
                 /\ raised' = raised \cup {"check_port_ready"}
                 /\ UNCHANGED retry
  /\ UNCHANGED <<runVars, polls, readVars, diskVars, histVars, flash_failed,
                 erase_failed, flash_outcome, waitHist>>

\* Lines 547-551: for i in range(5): sleep, probe, break when ready.
\* retry is the loop's i while the loop runs and 0 outside it.
PortRetry ==
  /\ pc = "port_retry"
  /\ retry < PortRetries
  /\ \E port \in PortStates : LET outcome == check_port_ready(port) IN
       /\ probes' = Append(probes, outcome)
       /\ probe' = [port |-> port, said |-> outcome]
       /\ CASE outcome = "ready" ->
                 /\ pc' = "read_open"
                 /\ retry' = 0
                 /\ UNCHANGED <<result, raised>>
            [] outcome = "not_ready" ->
                 /\ retry' = retry + 1
                 /\ UNCHANGED <<pc, result, raised>>
            [] outcome = "error" ->
                 /\ pc' = AfterUnexpected
                 /\ result' = Unexpected(result)
                 /\ raised' = raised \cup {"check_port_ready"}
                 /\ retry' = 0
  /\ UNCHANGED <<runVars, polls, readVars, diskVars, histVars, calls,
                 flash_failed, erase_failed, flash_outcome, waitHist>>

PortGiveUp_ReadAnyway ==
  /\ pc = "port_retry"
  /\ retry = PortRetries
  /\ pc' = "read_open"
  /\ UNCHANGED <<runVars, result, retry, polls, readVars, diskVars, histVars,
                 calls, flash_failed, erase_failed, cycleHist, waitHist>>

\* Lines 552-554: the else of the for loop.
PortGiveUp ==
  /\ pc = "port_retry"
  /\ retry = PortRetries
  /\ result' = Put(result, "errors",
                   Append(result.errors, "Port not available after flashing"))
  /\ retry' = 0
  /\ pc' = "return"
  /\ UNCHANGED <<runVars, polls, readVars, diskVars, histVars, calls,
                 flash_failed, erase_failed, cycleHist, waitHist>>

(***************************************************************************)
(* read_serial_output, lines 345-489.                                      *)
(***************************************************************************)
\* Line 351: serial.Serial(...) opens the port, or raises (return None).
ReadOpen ==
  /\ pc = "read_open"
  /\ calls' = Append(calls, "read_serial_output")
  /\ probes' = <<>>
  /\ probe' = NoProbe
  /\ \E opened \in BOOLEAN :
       IF opened
       THEN /\ ser' = "open"
            /\ rd' = NoLocals
            /\ t' = 0
            /\ \E s \in Scripts : script' = s
            /\ pc' = "read_loop"
            /\ UNCHANGED <<serial_data, raised>>
       ELSE /\ serial_data' = NoData
            /\ raised' = raised \cup {"serial.Serial"}
            /\ pc' = "classify"
            /\ UNCHANGED <<ser, rd, t, script>>
  /\ UNCHANGED <<runVars, result, retry, polls, diskVars, histVars,
                 flash_failed, erase_failed, flash_outcome, waitHist>>

\* ser.in_waiting > 0
InWaiting(s) == s # <<>> /\ Head(s) # Idle

\* The finally clause and the return: the handle is closed.  After a return
\* with data rd and t stay as the call left them (what it printed, how long
\* it read) until the result is classified.
ReadReturns(sd, locals, iterations) ==
  /\ ser' = "closed"
  /\ serial_data' = sd
  /\ rd' = locals
  /\ t' = iterations
  /\ script' = <<>>
  /\ pc' = "classify"

\* One iteration of the loop of line 376, entered while the deadline has
\* not passed.
ReadLoop ==
  /\ pc = "read_loop"
  /\ t < ReadPolls
  /\ IF InWaiting(script)
     THEN LET line == Head(script)
              rd1 == IF line # <<>> THEN ProcessLine(rd, line) ELSE rd
          IN  IF line # <<>> /\ AllFound(rd1)
              THEN ReadReturns(SerialData(rd1), FinalStatus(rd1), t)
              ELSE /\ rd' = rd1
                   /\ t' = t + 1
                   /\ script' = Tail(script)
                   /\ UNCHANGED <<pc, ser, serial_data>>
     ELSE /\ t' = t + 1
          /\ script' = IF script = <<>> THEN script ELSE Tail(script)
          /\ UNCHANGED <<pc, ser, serial_data, rd>>
  /\ UNCHANGED <<runVars, result, retry, polls, diskVars, histVars, calls,
                 flash_failed, erase_failed, cycleHist, waitHist>>

ReadDeadline_Restarts ==
  /\ pc = "read_loop"
  /\ t = ReadPolls
  /\ t' = 0
  /\ UNCHANGED <<pc, runVars, result, retry, polls, ser, rd, script,
                 serial_data, diskVars, histVars, calls, flash_failed,
                 erase_failed, cycleHist, waitHist>>

\* The loop ends at the deadline.
ReadDeadline ==
  /\ pc = "read_loop"
  /\ t = ReadPolls
  /\ ReadReturns(SerialData(rd), FinalStatus(rd), t)
  /\ UNCHANGED <<runVars, result, retry, polls, diskVars, histVars, calls,
                 flash_failed, erase_failed, cycleHist, waitHist>>

ReadFault_KeepsHandle ==
  /\ pc = "read_loop"
  /\ serial_data' = NoData
  /\ script' = <<>>
  /\ pc' = "classify"
  /\ raised' = raised \cup {"read_serial_output"}
  /\ UNCHANGED <<runVars, result, retry, polls, diskVars, histVars, calls,
                 flash_failed, erase_failed, probes, probe, flash_outcome,
                 waitHist, ser, rd, t>>

\* Lines 481-489: an exception while the port is open (the device was
\* pulled): the handle is closed and None is returned.
ReadFault ==
  /\ pc = "read_loop"
  /\ ReadReturns(NoData, NoLocals, 0)
  /\ raised' = raised \cup {"read_serial_output"}
  /\ UNCHANGED <<runVars, result, retry, polls, diskVars, histVars, calls,
                 flash_failed, erase_failed, probes, probe, flash_outcome,
                 waitHist>>

(***************************************************************************)
(* process_device, lines 558-598, and line 639 of the run loop.            *)
(***************************************************************************)
ClassifyStep ==
  /\ pc = "classify"
  /\ result' = Classify(result, serial_data)
  /\ serial_data' = NoData
  /\ rd' = NoLocals
  /\ t' = 0
  /\ pc' = "return"
  /\ UNCHANGED <<runVars, retry, polls, ser, script, diskVars, histVars,
                 calls, flash_failed, erase_failed, cycleHist,
                 waitHist>>

\* result = self.process_device(...); all_results.append(result)
AppendResult(rs, r) == Append(rs, r)

ProcReturn ==
  /\ pc = "return"
  /\ all_results' = AppendResult(all_results, result)
  /\ cycles' = cycles + 1
  /\ pc' = "version_check"
  /\ UNCHANGED <<erase_first, device_number, output_file_base,
                 csv_output_file, firmware_version_found, result, retry,
                 polls, readVars, diskVars, calls, flash_failed,
                 erase_failed, write_failed, rename_failed, stop, cycleHist,
                 waitHist>>

(***************************************************************************)
(* run_sequential_flashing, lines 641-667: the record store.               *)
(***************************************************************************)
ShouldRename_EveryVersion(r, found) ==
  /\ r.success
  /\ TruthyVer(Get(r, "firmware_version", NoneVer))

\* Line 642: result['success'] and not firmware_version_found and
\* result.get('firmware_version')
ShouldRename(r, found) ==
  /\ r.success
  /\ ~found
  /\ TruthyVer(Get(r, "firmware_version", NoneVer))

AfterRename_StopOnFailure(renamed) == IF renamed THEN "csv" ELSE "finalize"

\* Lines 654-660: a rename that raises is printed as a warning and the run
\* goes on with the new names.
AfterRename(renamed) == "csv"

VersionCheck ==
  /\ pc = "version_check"
  /\ IF ShouldRename(result, firmware_version_found)
     THEN LET new_output_base ==
                VersionedBase(output_file_base, result.firmware_version)
              new_csv_file == CsvPath(new_output_base)
          IN  /\ IF Exists(files, csv_output_file)
                 THEN \E renamed \in BOOLEAN :
                        /\ files' = IF renamed
                                    THEN Rename(files, csv_output_file,
                                                new_csv_file)
                                    ELSE files
                        /\ rename_failed' = ~renamed
                        /\ pc' = AfterRename(renamed)
                 ELSE /\ pc' = "csv"
                      /\ UNCHANGED <<files, rename_failed>>
              /\ csv_output_file' = new_csv_file
              /\ output_file_base' = new_output_base
              /\ firmware_version_found' = TRUE
     ELSE /\ pc' = "csv"
          /\ UNCHANGED <<files, rename_failed, csv_output_file,
                         output_file_base, firmware_version_found>>
  /\ UNCHANGED <<erase_first, device_number, all_results, result, retry,
                 polls, readVars, summary, calls, cycles, flash_failed,
                 erase_failed, write_failed, stop, cycleHist, waitHist>>

AfterCsv_StopOnFailure(r) == IF r.success THEN "wait_disconnect" ELSE "finalize"

\* Lines 669-670: whatever the result, the run waits for the disconnection.
AfterCsv(r) == "wait_disconnect"

CsvStep_Unguarded ==
  /\ pc = "csv"
  /\ files' = WriteRow(result, csv_output_file, files)
  /\ pc' = "wait_disconnect"
  /\ polls' = 0
  /\ calls' = <<>>
  /\ flash_failed' = FALSE
  /\ erase_failed' = FALSE
  /\ raised' = {}
  /\ probes' = <<>>
  /\ probe' = NoProbe
  /\ flash_outcome' = "none"
  /\ UNCHANGED <<runVars, result, retry, readVars, summary, cycles,
                 write_failed, rename_failed, stop, waitHist>>

\* Lines 664-667.
CsvStep ==
  /\ pc = "csv"
  /\ IF result.success
     THEN \E io \in IoOutcomes :
            /\ files' = append_to_csv(result, csv_output_file, files, io)
            /\ write_failed' = IF io = "ok" THEN write_failed
                               ELSE write_failed \cup {result.device_number}
     ELSE UNCHANGED <<files, write_failed>>
  /\ pc' = AfterCsv(result)
  /\ polls' = 0
  /\ calls' = <<>>
  /\ flash_failed' = FALSE
  /\ erase_failed' = FALSE
  /\ raised' = {}
  /\ probes' = <<>>
  /\ probe' = NoProbe
  /\ flash_outcome' = "none"
  /\ UNCHANGED <<runVars, result, retry, readVars, summary, cycles,
                 rename_failed, stop, waitHist>>

(***************************************************************************)
(* wait_for_device_disconnection and lines 669-674.                        *)
(***************************************************************************)
NextDeviceNumber_Stuck(n) == n

\* Line 674: device_number += 1
NextDeviceNumber(n) == n + 1

DisconnectPoll_NoDeadline ==
  /\ pc = "wait_disconnect"
  /\ \E port \in Returns :
       IF check_port_ready(port) = "ready"
       THEN /\ polls' = polls + 1
            /\ UNCHANGED <<pc, device_number, same_device>>
       ELSE /\ pc' = "wait_connect"
            /\ device_number' = NextDeviceNumber(device_number)
            /\ polls' = 0
            /\ same_device' = Listed(port)
  /\ UNCHANGED <<erase_first, all_results, output_file_base,
                 csv_output_file, firmware_version_found, result, retry,
                 readVars, diskVars, histVars, calls, flash_failed,
                 erase_failed, cycleHist, connect_polls>>

\* One poll of the loop of line 248: not ready is the disconnection (the
\* loop returns True and the device counter advances), ready is another
\* poll.
DisconnectPoll ==
  /\ pc = "wait_disconnect"
  /\ polls < MaxDisconnectPolls
  /\ \E port \in Returns :
       IF check_port_ready(port) = "ready"
       THEN /\ polls' = polls + 1
            /\ UNCHANGED <<pc, device_number, same_device>>
       ELSE /\ pc' = "wait_connect"
            /\ device_number' = NextDeviceNumber(device_number)
            /\ polls' = 0
            /\ same_device' = Listed(port)
  /\ UNCHANGED <<erase_first, all_results, output_file_base,
                 csv_output_file, firmware_version_found, result, retry,
                 readVars, diskVars, histVars, calls, flash_failed,
                 erase_failed, cycleHist, connect_polls>>

AfterDisconnectTimeout_NoBreak == "wait_connect"

\* Lines 670-672: where the run goes when wait_for_device_disconnection
\* returned False (break).
AfterDisconnectTimeout == "finalize"

\* The timeout: wait_for_device_disconnection returns False, the loop
\* breaks.
DisconnectTimeout ==
  /\ pc = "wait_disconnect"
  /\ polls = MaxDisconnectPolls
  /\ stop' = [why |-> "timeout", at |-> pc]
  /\ pc' = AfterDisconnectTimeout
  /\ UNCHANGED <<runVars, result, retry, polls, readVars, diskVars, calls,
                 cycles, flash_failed, erase_failed, write_failed,
                 rename_failed, cycleHist, waitHist>>

(***************************************************************************)
(* The end of the run, lines 676-684.                                      *)
(***************************************************************************)
\* The positions inside the try block of lines 627-675.
InTry ==
  {"wait_connect", "erase", "flash", "port_check", "port_retry",
   "read_open", "read_loop", "classify", "return", "version_check", "csv",
   "wait_disconnect"}

\* The positions inside process_device.
InCycle ==
  {"erase", "flash", "port_check", "port_retry", "read_open", "read_loop",
   "classify", "return"}

\* Ctrl+C: KeyboardInterrupt is no Exception, so no handler below the run
\* loop catches it; the finally clause of read_serial_output closes the
\* handle, the frame of process_device is dropped with its result, and
\* the run loop's result is still the one of the last returned cycle.
AfterInterrupt_ReturnsAtOnce == "done"

\* Lines 676-679: the except clause prints and falls through to the code
\* after the try statement.
AfterInterrupt == "finalize"

Interrupt ==
  /\ pc \in InTry
  /\ stop' = [why |-> "interrupt", at |-> pc]
  /\ pc' = AfterInterrupt
  /\ ser' = "closed"
  /\ rd' = NoLocals
  /\ t' = 0
  /\ script' = <<>>
  /\ serial_data' = NoData
  /\ retry' = 0
  /\ polls' = 0
  /\ result' = IF pc \in InCycle
               THEN IF all_results = <<>> THEN <<>>
                    ELSE all_results[Len(all_results)]
               ELSE result
  /\ calls' = <<>>
  /\ flash_failed' = FALSE
  /\ erase_failed' = FALSE
  /\ raised' = {}
  /\ probes' = <<>>
  /\ probe' = NoProbe
  /\ flash_outcome' = "none"
  /\ connect_polls' = 0
  /\ same_device' = FALSE
  /\ UNCHANGED <<runVars, diskVars, cycles, write_failed, rename_failed>>

save_json_results_SuccessesOnly(written, results, base) ==
  Append(written,
         [path |-> JsonPath(base),
          results |-> SelectSeq(results, LAMBDA r : r.success)])

\* save_json_results: json.dump(results) to f"{output_file_base}.json"
save_json_results(written, results, base) ==
  Append(written, [path |-> JsonPath(base), results |-> results])

\* Lines 680-684: if all_results: save the summary; return all_results.
Finalize ==
  /\ pc = "finalize"
  /\ summary' = IF all_results # <<>>
                THEN save_json_results(summary, all_results,
                                       output_file_base)
                ELSE summary
  /\ pc' = "done"
  /\ UNCHANGED <<runVars, result, retry, polls, readVars, files, calls,
                 histVars, flash_failed, erase_failed, cycleHist,
                 waitHist>>

Next ==
  \/ Detect
  \/ Erase
  \/ Flash
  \/ PortCheck
  \/ PortRetry
  \/ PortGiveUp
  \/ ReadOpen
  \/ ReadLoop
  \/ ReadDeadline
  \/ ReadFault
  \/ ClassifyStep
  \/ ProcReturn
  \/ VersionCheck
  \/ CsvStep
  \/ DisconnectPoll
  \/ DisconnectTimeout
  \/ Interrupt
  \/ Finalize

Spec == Init /\ [][Next]_vars

\* The steps the program takes by itself: none of them waits for the
\* operator or for a new device.  Each external step ends within its
\* ceiling (the tools' subprocess timeouts at lines 281 and 327, the read
\* timeout at line 376, the disconnect timeout at line 248), so the
\* program, once at one of these steps, goes on.  The attachment of a
\* device (Detect), the operator's Ctrl+C and a fault of the serial line
\* are the environment's.
Step ==
  \/ Erase
  \/ Flash
  \/ PortCheck
  \/ PortRetry
  \/ PortGiveUp
  \/ ReadOpen
  \/ ReadLoop
  \/ ReadDeadline
  \/ ClassifyStep
  \/ ProcReturn
  \/ VersionCheck
  \/ CsvStep
  \/ DisconnectPoll
  \/ DisconnectTimeout
  \/ Finalize

LiveSpec == Spec /\ WF_vars(Step)

(***************************************************************************)
(* Properties.                                                             *)
(***************************************************************************)
Range(f) == {f[x] : x \in DOMAIN f}
MapSeq(Op(_), sq) == [j \in 1..Len(sq) |-> Op(sq[j])]

\* C1: in every run the list of results has exactly one record per device
\* cycle that returned, its device_number values are 1, 2, ..., n in order,
\* and the list handed to the summary is that list.
C1_OneRecordPerCycle ==
  /\ Len(all_results) = cycles
  /\ \A j \in 1..Len(all_results) : all_results[j].device_number = j
  /\ \A k \in 1..Len(summary) : summary[k].results = all_results

\* A run of two cycles, ended by the disconnect timeout, with its summary.
C1_Witness ==
  /\ pc = "done"
  /\ stop.why = "timeout"
  /\ cycles = 2
  /\ Len(summary) = 1
  /\ Len(summary[1].results) = 2

\* C2: a result of process_device has success = true if and only if both
\* its serial_number and its public_key are non-empty, whether or not a
\* firmware version was found.
Classified(r) ==
  r.success <=> (TruthyStr(r.serial_number) /\ TruthyKey(r.public_key))

C2_SuccessIffSerialAndKey ==
  /\ \A j \in 1..Len(all_results) : Classified(all_results[j])
  /\ pc = "return" => Classified(result)

\* A success without a firmware version beside a failure that has a serial
\* number but no public key.
C2_Witness ==
  /\ Len(all_results) = 2
  /\ all_results[1].success
  /\ ~TruthyVer(Get(all_results[1], "firmware_version", NoneVer))
  /\ ~all_results[2].success
  /\ TruthyStr(all_results[2].serial_number)

\* The record store: the rows of a CSV file, and the rows of the files the
\* run has written, those of the pre-rename file (when a failed rename left
\* it behind) before those of the current file.
FileRows(path) == IF Exists(files, path) THEN DataRows(files[path]) ELSE <<>>
InitialCsv == CsvPath(InitialBase)
StoreRows ==
  IF csv_output_file = InitialCsv THEN FileRows(InitialCsv)
  ELSE FileRows(InitialCsv) \o FileRows(csv_output_file)

Successes == SelectSeq(all_results, LAMBDA r : r.success)

\* The last result has not passed lines 641-667: the run stands there, or
\* Ctrl+C ended it there.
Pending(r) ==
  /\ r.device_number = Len(all_results)
  /\ \/ pc \in {"version_check", "csv"}
     \/ stop.at \in {"version_check", "csv"}

\* The successful results that have passed the append and whose write did
\* not raise.
Written ==
  SelectSeq(all_results,
            LAMBDA r : r.success /\ ~Pending(r)
                         /\ r.device_number \notin write_failed)

\* C3 as stated: once k successful cycles are over, the record store holds
\* exactly k data rows, the i-th row carrying the serial number and public
\* key of the i-th successful device.
C3_AsStated ==
  pc \in {"wait_disconnect", "wait_connect"}
    => FileRows(csv_output_file) = MapSeq(CsvRow, Successes)

\* C3 (amended): the record store receives at most one row per successful
\* device, in the order the devices completed, and exactly the rows of the
\* successful devices that have passed the append and whose write did not
\* raise.
C3_RowsOfWrittenSuccesses == StoreRows = MapSeq(CsvRow, Written)

\* Two successful devices, each with its own row, in order.
C3_Witness ==
  /\ pc = "wait_disconnect"
  /\ Len(Successes) = 2
  /\ Len(StoreRows) = 2
  /\ StoreRows[1].ecc_serial = all_results[1].serial_number
  /\ StoreRows[2].ecc_serial = all_results[2].serial_number
  /\ StoreRows[1] # StoreRows[2]

\* C4: no row is ever written to the record store for a result with
\* success = false: every data row of every CSV file is the row of a
\* successful result of the list, there are no more rows than successes,
\* and the failed results are in the list handed to the summary.
C4_NoRowForFailure ==
  /\ \A path \in DOMAIN files :
       \A j \in 1..Len(DataRows(files[path])) :
          \E k \in 1..Len(all_results) :
             /\ all_results[k].success
             /\ DataRows(files[path])[j] = CsvRow(all_results[k])
  /\ Len(StoreRows) <= Len(Successes)
  /\ \A k \in 1..Len(summary) :
       \A j \in 1..Len(all_results) :
          ~all_results[j].success => summary[k].results[j] = all_results[j]

\* A failed device has passed lines 664-667 after a successful one, and the
\* store holds the one row of the successful one.
C4_Witness ==
  /\ pc = "done"
  /\ Len(all_results) = 2
  /\ all_results[1].success
  /\ ~all_results[2].success
  /\ stop.at = "wait_disconnect"
  /\ Len(StoreRows) = 1
  /\ Len(summary) = 1

\* The positions of a cycle whose process_device has run to its return.
Returning == {"return", "version_check", "csv"}

\* C5: in a cycle whose write step failed, the cycle ends at once with a
\* failure result that carries the error; neither the port-recovery check
\* nor read_serial_output is entered in that cycle.
C5_FlashFailureEndsCycle ==
  flash_failed =>
    /\ pc \in Returning
    /\ ~result.success
    /\ result.errors = <<"Firmware flash failed">>
    /\ "check_port_ready" \notin Range(calls)
    /\ "read_serial_output" \notin Range(calls)
    /\ calls[Len(calls)] \in {"flash_firmware", "write_flash"}

\* The result of a cycle whose write step failed is in the list.
C5_Witness ==
  /\ flash_failed
  /\ pc = "version_check"
  /\ all_results[Len(all_results)].errors = <<"Firmware flash failed">>

\* C6: when erase is requested and fails, the cycle still goes on to the
\* programming step and its result has a non-empty warnings list; if
\* programming and extraction then succeed the result is a success, and a
\* result that is no success carries an error of a later step.
C6_EraseFailureIsWarning ==
  erase_failed =>
    /\ erase_first
    /\ pc \in Returning => "flash_firmware" \in Range(calls)
    /\ result.warnings # <<>>
    /\ pc \in Returning =>
         /\ (~flash_failed /\ TruthyStr(result.serial_number)
               /\ TruthyKey(result.public_key)) => result.success
         /\ ~result.success => result.errors # <<>>

\* A cycle whose erase failed ends as a success, with its warning.
C6_Witness ==
  /\ erase_failed
  /\ pc = "version_check"
  /\ result.success
  /\ Len(result.warnings) = 1
  /\ "write_flash" \in Range(calls)

\* C7: when the port never reports not-ready within the disconnect
\* timeout, the run stops: no further device cycle is started, the device
\* counter is not advanced, and the summary holds every device processed so
\* far, the one that was not removed included.
C7_DisconnectTimeoutStopsRun ==
  stop.why = "timeout" =>
    /\ pc \in {"finalize", "done"}
    /\ device_number = Len(all_results)
    /\ all_results[Len(all_results)].device_number = device_number
    /\ pc = "done" =>
         /\ Len(summary) = 1
         /\ summary[1].results = all_results

\* A run of two devices stopped by the timeout after the second.
C7_Witness ==
  /\ stop.why = "timeout"
  /\ pc = "done"
  /\ device_number = 2
  /\ Len(summary[1].results) = 2

\* C8 as stated: at every run end the summary artifact has been written
\* exactly once and contains all results of the run.
C8_AsStated ==
  pc = "done" => Len(summary) = 1 /\ summary[1].results = all_results

\* C8 (amended): at every run end with at least one result the summary
\* artifact is written exactly once, under the current base name, and
\* contains all results of the run in order; a run that ends with no result
\* writes no summary artifact, and none is written before the run ends.
C8_SummaryOnceWhenResults ==
  /\ pc # "done" => summary = <<>>
  /\ pc = "done" =>
       IF all_results # <<>>
       THEN /\ Len(summary) = 1
            /\ summary[1].results = all_results
            /\ summary[1].path = JsonPath(output_file_base)
       ELSE summary = <<>>

\* A run cancelled by the operator whose summary holds a success and a
\* failure.
C8_Witness ==
  /\ pc = "done"
  /\ stop.why = "interrupt"
  /\ Len(summary) = 1
  /\ Len(summary[1].results) = 2
  /\ summary[1].results[1].success
  /\ ~summary[1].results[2].success

\* A successful result that carries a firmware version.
Versioned(r) == r.success /\ TruthyVer(Get(r, "firmware_version", NoneVer))

\* The results that have passed lines 641-662 carrying a version.
VersionedAt ==
  {j \in 1..Len(all_results) :
     /\ Versioned(all_results[j])
     /\ ~(/\ j = Len(all_results)
          /\ (pc = "version_check" \/ stop.at = "version_check"))}

\* The successful results written before, and from, the device that
\* triggered the rename.
WrittenBefore(n) == SelectSeq(Written, LAMBDA r : r.device_number < n)
WrittenFrom(n) == SelectSeq(Written, LAMBDA r : r.device_number >= n)

\* C9 as stated: once the rename has been triggered, every row appended
\* before it and every row appended after it is in the single final
\* record-store file.
C9_AsStated ==
  firmware_version_found =>
    /\ DOMAIN files \subseteq {csv_output_file}
    /\ FileRows(csv_output_file) = MapSeq(CsvRow, Written)

\* C9 (amended): once the rename has been triggered no appended row is
\* lost; when the rename succeeded, or there was no file to rename, every
\* row appended before and after it is in the single final file; when the
\* rename failed, the rows appended before it are still in the pre-rename
\* file and the rows appended from the triggering device on are in the new
\* file.
C9_RenameKeepsRows ==
  firmware_version_found =>
    /\ StoreRows = MapSeq(CsvRow, Written)
    /\ ~rename_failed =>
         /\ DOMAIN files \subseteq {csv_output_file}
         /\ FileRows(csv_output_file) = MapSeq(CsvRow, Written)
    /\ rename_failed =>
         /\ Exists(files, InitialCsv)
         /\ FileRows(InitialCsv)
              = MapSeq(CsvRow, WrittenBefore(MinOf(VersionedAt)))
         /\ FileRows(csv_output_file)
              = MapSeq(CsvRow, WrittenFrom(MinOf(VersionedAt)))

\* The renamed file holds the row written to the pre-rename path and the
\* row of the device that triggered the rename.
C9_Witness ==
  /\ firmware_version_found
  /\ ~rename_failed
  /\ pc = "wait_disconnect"
  /\ ~Versioned(all_results[1])
  /\ Versioned(all_results[2])
  /\ ~Exists(files, InitialCsv)
  /\ Len(FileRows(csv_output_file)) = 2
  /\ FileRows(csv_output_file)[1] = CsvRow(all_results[1])
  /\ FileRows(csv_output_file)[2] = CsvRow(all_results[2])

\* C10: the record-store path and the output base name change at most once
\* per run, at the first successful result that carries a firmware version,
\* and stay fixed from then on: they are the initial names until such a
\* result has passed lines 641-662, and from then on the names that embed
\* the version of the first such result.
C10_NameFixedByFirstVersion ==
  /\ csv_output_file = CsvPath(output_file_base)
  /\ IF VersionedAt = {}
     THEN /\ output_file_base = InitialBase
          /\ ~firmware_version_found
     ELSE /\ output_file_base
               = InitialBase \o <<"_V_">>
                   \o ReplaceDots(all_results[MinOf(VersionedAt)].firmware_version)
          /\ firmware_version_found

\* Two successes with different versions: the names embed the first one.
C10_Witness ==
  /\ pc = "wait_disconnect"
  /\ Len(all_results) = 2
  /\ Versioned(all_results[1])
  /\ Versioned(all_results[2])
  /\ all_results[1].firmware_version = <<"1", ".", "2", ".", "3">>
  /\ all_results[2].firmware_version = <<"2", ".", "0">>
  /\ output_file_base
       = <<"flash_results_", Timestamp, "_V_", "1", "_", "2", "_", "3">>

\* C11, as stated: operator cancellation takes effect only between
\* iterations of the run loop, so an interrupt never abandons a device cycle
\* part-way.
C11_AsStated == stop.why = "interrupt" => stop.at \notin InCycle

\* C11: Ctrl+C takes effect wherever the run stands inside the try block,
\* part-way through a device cycle included; the cycle it hits is abandoned
\* and leaves no result, no result of a cycle that returned is lost, and the
\* list of those results is what finalization writes when it is not empty.
C11_InterruptKeepsReturnedResults ==
  stop.why = "interrupt" =>
    /\ stop.at \in InTry
    /\ Len(all_results) = cycles
    /\ \A k \in 1..Len(all_results) : all_results[k].device_number = k
    /\ IF stop.at \in InCycle \cup {"wait_connect"}
       THEN Len(all_results) = device_number - 1
       ELSE Len(all_results) = device_number
    /\ pc \in {"finalize", "done"}
    /\ pc = "done" =>
         IF all_results = <<>> THEN summary = <<>>
         ELSE summary = <<[path |-> JsonPath(output_file_base),
                           results |-> all_results]>>

\* Ctrl+C while the output of the second device is being read: the first
\* device's result is in the summary, the second device has none.
C11_Witness ==
  /\ stop = [why |-> "interrupt", at |-> "read_loop"]
  /\ pc = "done"
  /\ device_number = 2
  /\ Len(all_results) = 1
  /\ Len(summary) = 1
  /\ summary[1].results = all_results

\* C12: after every device cycle that returned a result, a success or a
\* failure of any kind, the run enters the disconnect wait with that result
\* recorded, and a port that reports not ready there starts the next device;
\* the run ends only by the disconnect timeout (or the operator's Ctrl+C),
\* never by a device's error.
C12_FailureNeverEndsRun ==
  /\ pc \in {"finalize", "done"} => stop.why \in {"timeout", "interrupt"}
  /\ stop.why = "timeout" => stop.at = "wait_disconnect"
  /\ pc = "wait_disconnect" =>
       /\ Len(all_results) = device_number
       /\ result = all_results[device_number]
  /\ pc \in InCycle \cup {"wait_connect"} =>
       /\ stop = Running
       /\ Len(all_results) = device_number - 1

\* Two failed devices, one whose port did not come back and one whose cycle
\* raised, each followed by the disconnect wait: the run awaits a third.
C12_Witness ==
  /\ pc = "wait_connect"
  /\ device_number = 3
  /\ stop = Running
  /\ all_results[1].errors = <<"Port not available after flashing">>
  /\ all_results[2].errors = <<"Unexpected error">>
  /\ ~all_results[1].success /\ ~all_results[2].success

\* C13, as stated: an exception raised at any step inside a device cycle
\* ends up in the errors list of the result the cycle returns.
C13_AsStated ==
  pc \in Returning /\ raised # {} => result.errors # <<>>

\* C13: an exception raised inside a device cycle never leaves
\* process_device: raised by the erase step it becomes the erase warning
\* and the cycle goes on, raised by the write step it becomes the flash
\* error, raised by the extraction it becomes the read error, raised by a
\* port probe it is caught by the except clause of process_device and
\* becomes the generic error; the cycle returns its result and the run goes
\* on to the record store and the disconnect wait.
C13_ExceptionsYieldResult ==
  /\ raised # {} => pc \in InCycle \cup Returning
  /\ pc \in Returning =>
       /\ result.device_number = device_number
       /\ "erase_flash" \in raised =>
            result.warnings
              = <<"Flash erase failed, but continuing with flashing (this is normal for fresh devices)">>
       /\ "flash_firmware" \in raised =>
            result.errors = <<"Firmware flash failed">>
       /\ "check_port_ready" \in raised =>
            result.errors = <<"Unexpected error">>
       /\ raised \cap {"serial.Serial", "read_serial_output"} # {} =>
            result.errors = <<"Failed to read serial output">>
       /\ raised \ {"erase_flash"} # {} => ~result.success

\* The erase step raised and a port probe raised: the result that is
\* appended to the list carries the warning and the generic error.
C13_Witness ==
  /\ pc = "version_check"
  /\ raised = {"erase_flash", "check_port_ready"}
  /\ result.errors = <<"Unexpected error">>
  /\ result.warnings # <<>>
  /\ all_results[Len(all_results)] = result

NotReady(k) == [j \in 1..k |-> "not_ready"]

\* C14: the port is probed only after a successful write step; after a
\* first probe that says not ready it is probed at most PortRetries (5)
\* more times; the output is read only after a probe that said ready, and
\* when all probes said not ready the cycle returns a failure whose only
\* error is the port-unavailable one, the output never having been read.
C14_PortRecovery ==
  /\ Len(probes) <= PortRetries + 1
  /\ \A k \in 1..(Len(probes) - 1) : probes[k] = "not_ready"
  /\ probes # <<>> => ~flash_failed /\ "write_flash" \in Range(calls)
  /\ pc = "port_retry" => probes = NotReady(retry + 1)
  /\ pc = "read_open" => probes # <<>> /\ probes[Len(probes)] = "ready"
  /\ "read_serial_output" \in Range(calls) =>
       /\ "check_port_ready" \in Range(calls)
       /\ "Port not available after flashing" \notin Range(result.errors)
  /\ pc \in Returning =>
       ( probes = NotReady(PortRetries + 1)
           <=> "Port not available after flashing" \in Range(result.errors) )
  /\ pc \in Returning /\ probes = NotReady(PortRetries + 1) =>
       /\ result.errors = <<"Port not available after flashing">>
       /\ ~result.success
       /\ "read_serial_output" \notin Range(calls)

\* The first device's port never came back (six probes, no read); the
\* second device's port came back at the second retry and is read next.
C14_Witness ==
  /\ device_number = 2
  /\ all_results[1].errors = <<"Port not available after flashing">>
  /\ pc = "read_open"
  /\ probes = <<"not_ready", "not_ready", "ready">>
  /\ "read_serial_output" \notin Range(calls)

\* What the first line of lines that Match matches gives, or none.
FirstMatch(Match(_), none, lines) ==
  LET hits == {k \in 1..Len(lines) : Match(lines[k]) # none}
  IN  IF hits = {} THEN none ELSE Match(lines[MinOf(hits)])

FirstSerial(lines) == FirstMatch(SerialMatch, NoneStr, lines)
FirstKey(lines) == FirstMatch(KeyMatch, NoneKey, lines)
FirstVersion(lines) == FirstMatch(VersionMatch, NoneVer, lines)

\* Serial number, public key and firmware version are all in lines.
Complete(lines) ==
  /\ TruthyStr(FirstSerial(lines))
  /\ TruthyKey(FirstKey(lines))
  /\ TruthyVer(FirstVersion(lines))

C16_FieldsWriteOnce ==
  /\ rd.device_id = FirstSerial(rd.output_lines)
  /\ rd.public_key = FirstKey(rd.output_lines)
  /\ rd.firmware_version = FirstVersion(rd.output_lines)
  /\ IsData(serial_data) =>
       /\ serial_data.device_id = FirstSerial(serial_data.output_lines)
       /\ serial_data.public_key = FirstKey(serial_data.output_lines)
       /\ serial_data.firmware_version
            = FirstVersion(serial_data.output_lines)

\* A device that prints a second, different serial number and a second,
\* different version after the first ones: the first ones are returned.
C16_Witness ==
  /\ pc = "classify"
  /\ IsData(serial_data)
  /\ serial_data.output_lines
       = <<LineSerialC, LineVersionC, LineVersion, LineSerial, LineKeyC>>
  /\ serial_data.device_id = "zap-00cc"
  /\ serial_data.firmware_version = <<"2", ".", "0">>
  /\ SerialMatch(LineSerial) = "zap-00ff"
  /\ VersionMatch(LineVersion) = <<"1", ".", "2", ".", "3">>

\* C17: from the lines 'booting', 'Serial Number: zap-00ff', 'coex firmware
\* version: 831ec70', 'firmware version: 1.2.3', 'Public Key: ' and 64 times
\* 'a', the extraction returns the serial number zap-00ff, the firmware
\* version 1.2.3 (not the coex one) and the 64-digit key.
C17_Example ==
  pc = "classify" /\ IsData(serial_data)
    /\ serial_data.output_lines
         = <<LineBooting, LineSerial, LineCoex, LineVersion, LineKey>>
  => /\ serial_data.device_id = "zap-00ff"
     /\ serial_data.firmware_version = <<"1", ".", "2", ".", "3">>
     /\ serial_data.public_key = [hex |-> "a", len |-> 64]

\* The extraction has returned from exactly these five lines.
C17_Witness ==
  /\ pc = "classify"
  /\ IsData(serial_data)
  /\ serial_data.output_lines
       = <<LineBooting, LineSerial, LineCoex, LineVersion, LineKey>>
  /\ serial_data.boot_success
  /\ t = 4

\* C18: once 'invalid header' is in a captured line the boot issue has been
\* reported (the warning of line 392 is printed for that line), whatever
\* was or was not extracted and whether or not the boot looked successful;
\* the status check after the loop reports it once more exactly when no
\* boot indicator was seen.  A device that prints only 'invalid header'
\* gives no serial number, no public key, boot_success false, both
\* warnings, and a failed result.
C18_InvalidHeaderFlagged ==
  /\ HasInvalidHeaderRaw(rd.output_lines) => rd.boot_issue
  /\ rd.boot_issue
       <=> \E k \in 1..Len(rd.output_lines) :
              HasInvalidHeaderLower(rd.output_lines[k])
  /\ pc = "classify" /\ IsData(serial_data) =>
       /\ rd.output_lines = serial_data.output_lines
       /\ rd.boot_warning
            <=> /\ ~serial_data.boot_success
                /\ HasInvalidHeaderRaw(serial_data.output_lines)
       /\ serial_data.output_lines = <<LineInvalid>> =>
            /\ serial_data.device_id = NoneStr
            /\ serial_data.public_key = NoneKey
            /\ ~serial_data.boot_success
            /\ rd.boot_issue
            /\ rd.boot_warning
            /\ ~Classify(result, serial_data).success

\* A device that boots, prints its serial number and then a line with
\* 'invalid header': the boot issue is reported although a field was
\* extracted and the boot looked successful.
C18_Witness ==
  /\ pc = "classify"
  /\ IsData(serial_data)
  /\ serial_data.output_lines = <<LineBooting, LineSerial, LineInvalidMid>>
  /\ serial_data.device_id = "zap-00ff"
  /\ serial_data.boot_success
  /\ rd.boot_issue
  /\ ~rd.boot_warning

\* The positions at which the next step opens the port: the probes of
\* check_port_ready and the open of read_serial_output.
Opening ==
  {"wait_connect", "port_check", "port_retry", "read_open",
   "wait_disconnect"}

\* C19: the program holds a handle on the port only while the read loop of
\* read_serial_output runs, and it is closed on every way out of that loop
\* (the deadline, the early break, an exception, Ctrl+C); so no step that
\* opens the port starts while a handle is open (at most one at a time) and
\* no handle is carried into another step of the lifecycle.
C19_HandleOnlyWhileReading ==
  /\ ser \in {"open", "closed"}
  /\ ser = "open" <=> pc = "read_loop"
  /\ pc \in Opening => ser = "closed"

\* The port was opened and the read was cut off by an exception: the
\* handle is closed when the cycle goes on to classify.
C19_Witness ==
  /\ pc = "classify"
  /\ serial_data = NoData
  /\ "read_serial_output" \in raised
  /\ "serial.Serial" \notin raised
  /\ ser = "closed"

\* C20, as stated: every wait is a bounded polling loop, the connection
\* wait too.  The code states no limit for that wait; the statement is made
\* with the limit of the disconnection wait, the other wait of the run loop
\* on the same probe and interval.
C20_AsStated ==
  pc = "wait_connect" => connect_polls <= MaxDisconnectPolls

\* C20: the waits for the disconnection, for the port to come back and for
\* the device's output are bounded polling loops: the disconnection wait
\* makes at most MaxDisconnectPolls polls and times out at that count, the
\* port is probed at most PortRetries times after the first probe, the read
\* loop runs at most ReadPolls iterations.  The connection wait has no
\* such limit: after any number of probes that said not ready the run is
\* still waiting, and only a ready probe or Ctrl+C ends it.
C20_BoundedWaits ==
  /\ pc = "wait_disconnect" => polls <= MaxDisconnectPolls
  /\ stop.why = "timeout" =>
       stop.at = "wait_disconnect" /\ polls = MaxDisconnectPolls
  /\ pc = "port_retry" => retry <= PortRetries /\ Len(probes) = retry + 1
  /\ Len(probes) <= PortRetries + 1
  /\ pc = "read_loop" => t <= ReadPolls
  /\ pc = "classify" => t <= ReadPolls
  /\ connect_polls > 0 => pc = "wait_connect" /\ stop = Running

\* None of the awaited conditions came true: the first device's port did
\* not come back in six probes, the second device was read to the deadline
\* without a serial number, and it was never unplugged.
C20_Witness ==
  /\ stop.why = "timeout"
  /\ polls = MaxDisconnectPolls
  /\ Len(all_results) = 2
  /\ all_results[1].errors = <<"Port not available after flashing">>
  /\ all_results[2].errors
       = <<"Could not extract serial number or public key from device output">>
  /\ all_results[2].serial_number = NoneStr

\* C21: check_port_ready says ready exactly when the port is in the list of
\* ports and can be opened; a port that is absent, busy or denied makes it
\* say not ready and raises nothing; only another error is raised to the
\* caller.  The probe holds no handle when it has returned, and the read
\* starts only after a probe that said ready.
C21_ProbeReadyIffListedAndOpenable ==
  /\ \A port \in PortStates :
       /\ check_port_ready(port) = "ready"
            <=> Listed(port) /\ port = "openable"
       /\ port \in {"absent", "unlisted", "busy", "denied"} =>
            check_port_ready(port) = "not_ready"
  /\ probe # NoProbe =>
       /\ probe.said = check_port_ready(probe.port)
       /\ probe.said = "ready" <=> probe.port = "openable"
       /\ probe.port \in {"absent", "unlisted", "busy", "denied"} =>
            probe.said = "not_ready" /\ "check_port_ready" \notin raised
       /\ probe.said = "error" <=> "check_port_ready" \in raised
       /\ ser = "closed"
       /\ probes # <<>> /\ probes[Len(probes)] = probe.said
  /\ pc = "read_open" => probe.port = "openable"
  /\ pc = "port_retry" => probe.said = "not_ready"

\* The port is busy at the third probe of the port recovery: the probe says
\* not ready, nothing is raised and the recovery goes on.
C21_Witness ==
  /\ pc = "port_retry"
  /\ retry = 2
  /\ probe = [port |-> "busy", said |-> "not_ready"]
  /\ raised = {}
  /\ ser = "closed"

\* C22, as stated: when the port has vanished before the write step, the
\* cycle fails with an error that is not the one recorded when the
\* programming tool fails ('Firmware flash failed').
C22_AsStated ==
  pc \in Returning /\ flash_outcome = "port_gone" =>
    result.errors # <<"Firmware flash failed">>

\* C22: flash_firmware checks that the port exists before it runs the
\* programming tool; when the port has vanished the tool is not run and the
\* cycle returns a failure.  The error the result records is the same
\* 'Firmware flash failed' that is recorded when the tool fails or raises.
C22_PortGoneSkipsTool ==
  /\ flash_outcome = "port_gone" =>
       /\ "flash_firmware" \in Range(calls)
       /\ "write_flash" \notin Range(calls)
  /\ flash_outcome \in {"tool_failed", "raised", "ok"} =>
       "write_flash" \in Range(calls)
  /\ flash_outcome \in {"port_gone", "tool_failed", "raised"} =>
       /\ pc \in Returning
       /\ flash_failed
       /\ result.errors = <<"Firmware flash failed">>
       /\ ~result.success
       /\ probes = <<>>
       /\ "read_serial_output" \notin Range(calls)

\* The port vanished before the write step of the second device: the tool
\* was not run and the result with the flash error is in the list.
C22_Witness ==
  /\ pc = "version_check"
  /\ device_number = 2
  /\ flash_outcome = "port_gone"
  /\ "write_flash" \notin Range(calls)
  /\ all_results[2] = result
  /\ result.errors = <<"Firmware flash failed">>

InitialFields ==
  {"device_number", "port", "success", "serial_number", "public_key",
   "errors", "warnings", "timestamp"}

AllFields == InitialFields \cup {"firmware_version", "output_lines"}

\* The errors of a cycle that ended before read_serial_output returned data.
EarlyErrors ==
  {"Firmware flash failed", "Port not available after flashing",
   "Failed to read serial output", "Unexpected error"}

Summarised == IF summary = <<>> THEN <<>> ELSE summary[Len(summary)].results

\* C23, as stated: every result of the run carries all ten fields.
C23_AsStated ==
  \A k \in 1..Len(all_results) : DOMAIN all_results[k] = AllFields

\* C23: every result, in the list and in the summary, carries the eight
\* fields device_number, port, success, serial_number, public_key, errors,
\* warnings and timestamp.  firmware_version and output_lines are present
\* exactly in the results of the cycles in which the read returned data; a
\* result that failed at programming, at port recovery, at a read that
\* returned nothing or with an unexpected error has neither.
C23_FieldsOfResults ==
  /\ \A k \in 1..Len(all_results) :
       LET r == all_results[k]
       IN  /\ DOMAIN r \in {InitialFields, AllFields}
           /\ DOMAIN r = InitialFields <=>
                /\ r.errors # <<>>
                /\ r.errors[Len(r.errors)] \in EarlyErrors
           /\ r.success => DOMAIN r = AllFields
  /\ pc = "done" /\ all_results # <<>> => Summarised = all_results

\* The summary holds a result that failed at programming, with eight fields,
\* and a successful result with ten.
C23_Witness ==
  /\ pc = "done"
  /\ Len(Summarised) = 2
  /\ Summarised[1].errors = <<"Firmware flash failed">>
  /\ DOMAIN Summarised[1] = InitialFields
  /\ Summarised[2].success
  /\ DOMAIN Summarised[2] = AllFields

\* C24: a row that could not be written and a file that could not be
\* renamed neither stop the run nor change the result: the device stays a
\* success in the list and in the summary, the run goes on to the row, to
\* the disconnect wait and to the next device, and it ends only by the
\* disconnect timeout or the operator's interrupt.
C24_StoreFailureIsNotFatal ==
  /\ \A n \in write_failed :
       /\ n \in 1..Len(all_results)
       /\ all_results[n].success
       /\ all_results[n].errors = <<>>
  /\ rename_failed =>
       /\ firmware_version_found
       /\ csv_output_file # InitialCsv
       /\ \E k \in 1..Len(all_results) : all_results[k].success
  /\ (rename_failed \/ write_failed # {}) /\ stop = Running =>
       pc \notin {"finalize", "done"}
  /\ pc \in {"csv", "wait_disconnect"} => result = all_results[device_number]
  /\ device_number \in write_failed /\ stop = Running =>
       pc = "wait_disconnect"
  /\ pc = "done" /\ all_results # <<>> =>
       /\ Summarised = all_results
       /\ \A n \in write_failed : Summarised[n].success

\* The first device wrote the file; for the second device the rename failed
\* and then its row could not be written.  The run went through the
\* disconnect wait and awaits the third device, both devices successes.
C24_Witness ==
  /\ pc = "wait_connect"
  /\ device_number = 3
  /\ stop = Running
  /\ rename_failed
  /\ write_failed = {2}
  /\ all_results[1].success
  /\ all_results[2].success

\* C25, as stated: a device cycle is started only for a newly attached
\* device.  While the device of the previous cycle has stayed in the list of
\* ports since that cycle ended (same_device), the run waits and no cycle
\* is started for it.
C25_AsStated == same_device => pc \notin InCycle

\* C26, as stated: when the operator interrupts the run, at whatever point,
\* and no write to the record store has failed, every successful result of
\* the summary has its row in the record store.
C26_AsStated ==
  pc = "done" /\ stop.why = "interrupt" /\ write_failed = {} =>
    \A k \in 1..Len(Summarised) :
      Summarised[k].success => CsvRow(Summarised[k]) \in Range(StoreRows)

\* C27: a result a device cycle returns has success = false exactly when
\* its list of errors is not empty: every failed result names at least one
\* error and no successful result carries one.  This holds for the result
\* at the return of process_device, for every result of the list and for
\* every result of the summary.
C27_FailureIffErrors ==
  /\ pc \in Returning => (result.success <=> result.errors = <<>>)
  /\ \A k \in 1..Len(all_results) :
       all_results[k].success <=> all_results[k].errors = <<>>
  /\ \A k \in 1..Len(Summarised) :
       Summarised[k].success <=> Summarised[k].errors = <<>>
  /\ pc \in InCycle \ {"return"} => ~result.success /\ result.errors = <<>>

\* A cycle whose erase failed and which then succeeded (a warning, no
\* error) and a cycle whose read gave data without both fields (an error).
C27_Witness ==
  /\ pc = "return"
  /\ device_number = 2
  /\ all_results[1].success
  /\ all_results[1].warnings # <<>>
  /\ all_results[1].errors = <<>>
  /\ ~result.success
  /\ result.errors =
       <<"Could not extract serial number or public key from device output">>

ReadRaised == raised \cap {"serial.Serial", "read_serial_output"} # {}

ReadError == "Failed to read serial output"

MissingError ==
  "Could not extract serial number or public key from device output"

\* C28: an extraction that fails with an exception (read_serial_output
\* returns None) and an extraction that returns data without the serial
\* number or without the public key both end in a failed result, the first
\* with the error 'Failed to read serial output', the second with 'Could
\* not extract serial number or public key from device output'.  In both
\* the serial handle is closed when the result is classified.
C28_BothReadFailuresFail ==
  /\ pc \in {"classify"} \cup Returning => ser = "closed"
  /\ pc = "classify" =>
       /\ ~IsData(serial_data) <=> ReadRaised
       /\ LET r == Classify(result, serial_data)
          IN  /\ ~IsData(serial_data) =>
                   ~r.success /\ r.errors = <<ReadError>>
              /\ IsData(serial_data)
                   /\ ~(TruthyStr(serial_data.device_id)
                          /\ TruthyKey(serial_data.public_key)) =>
                   ~r.success /\ r.errors = <<MissingError>>
  /\ pc \in Returning =>
       /\ ReadRaised => ~result.success /\ result.errors = <<ReadError>>
       /\ "read_serial_output" \in Range(calls) /\ ~ReadRaised
            /\ ~(TruthyStr(result.serial_number)
                   /\ TruthyKey(result.public_key)) =>
            ~result.success /\ result.errors = <<MissingError>>
       /\ ReadError \in Range(result.errors) => ReadRaised
       /\ MissingError \in Range(result.errors) =>
            /\ ~ReadRaised
            /\ "read_serial_output" \in Range(calls)
  /\ ReadError # MissingError

\* The first device's read returned data with a serial number and no public
\* key, the second device's read raised while the port was open: both
\* results are failures, each with its error, and the handle is closed.
C28_Witness ==
  /\ pc = "return"
  /\ device_number = 2
  /\ ser = "closed"
  /\ all_results[1].errors = <<MissingError>>
  /\ TruthyStr(all_results[1].serial_number)
  /\ ~all_results[1].success
  /\ "read_serial_output" \in raised
  /\ result.errors = <<ReadError>>
  /\ ~result.success

IsPrefix(s, q) == Len(s) <= Len(q) /\ s = SubSeq(q, 1, Len(s))

ErasePart == IF erase_first THEN <<"erase_flash">> ELSE <<>>

\* The steps of a device cycle that runs to the read, in their order.
StepOrder ==
  ErasePart \o <<"flash_firmware", "write_flash", "check_port_ready",
                 "read_serial_output">>

\* C29: the steps of a device cycle are entered in the fixed order erase
\* (only when the run was started with erase_first), program, port
\* recovery check, read; the erase, the programming and the read are each
\* entered at most once in a cycle, whatever their outcome, and only the
\* probe of the port is repeated, at most PortRetries times.
C29_StepsOnceInOrder ==
  /\ \/ IsPrefix(calls, StepOrder)
     \/ calls = ErasePart \o <<"flash_firmware">>
  /\ \A i, j \in 1..Len(calls) : calls[i] = calls[j] => i = j
  /\ pc = "flash" => calls = ErasePart
  /\ pc = "port_check" =>
       calls = ErasePart \o <<"flash_firmware", "write_flash">>
  /\ pc \in {"port_retry", "read_open"} =>
       calls = ErasePart \o <<"flash_firmware", "write_flash",
                              "check_port_ready">>
  /\ pc \in {"read_loop", "classify"} => calls = StepOrder
  /\ Len(probes) <= 1 + PortRetries

\* A cycle with the erase requested in which the erase failed, the
\* programming succeeded, the port was ready and the read raised: every
\* step was entered once, in order.
C29_Witness ==
  /\ pc = "return"
  /\ erase_first
  /\ erase_failed
  /\ "read_serial_output" \in raised
  /\ calls = <<"erase_flash", "flash_firmware", "write_flash",
               "check_port_ready", "read_serial_output">>

\* C30, as stated: every record-store file that holds rows begins with
\* the header row, and the header row occurs nowhere else in it.
C30_AsStated ==
  \A path \in DOMAIN files :
    files[path] # <<>> =>
      /\ files[path][1] = HeaderRow
      /\ \A k \in 2..Len(files[path]) : files[path][k] # HeaderRow

\* The lines of a capture that match some pattern of the key family, and
\* of the serial family.
KeyLines(lines) ==
  {k \in 1..Len(lines) : KeyLabeled(lines[k]) \cup KeyBare(lines[k]) # {}}

SerialLines(lines) ==
  {k \in 1..Len(lines) :
     SerialLabeled(lines[k]) \cup SerialBare(lines[k]) # {}}

\* C31: the order of the patterns of a family decides only within one
\* line.  The public key is taken from the earliest captured line that
\* matches any pattern of the key family: from a labeled form of that line
\* when it has one (the whole hex run after the label), otherwise from a
\* bare hex run of it (its first 64 or 32 digits), whatever labeled forms
\* the later lines hold.  The serial number is taken in the same way from
\* the earliest line that matches any pattern of the serial family.
C31_EarliestLineWins ==
  LET lines == rd.output_lines
  IN  /\ IF KeyLines(lines) = {}
         THEN rd.public_key = NoneKey
         ELSE LET l == lines[MinOf(KeyLines(lines))]
              IN  IF KeyLabeled(l) # {}
                  THEN \E i \in KeyLabeled(l) :
                         rd.public_key = KeyOf(l[i], l[i].len)
                  ELSE \E i \in KeyBare(l) :
                         /\ rd.public_key.hex = l[i].text
                         /\ rd.public_key.len
                              = IF l[i].len >= 64 THEN 64 ELSE 32
      /\ IF SerialLines(lines) = {}
         THEN rd.device_id = NoneStr
         ELSE LET l == lines[MinOf(SerialLines(lines))]
              IN  IF SerialLabeled(l) # {}
                  THEN \E i \in SerialLabeled(l) : rd.device_id = l[i].text
                  ELSE \E i \in SerialBare(l) : rd.device_id = l[i].text

\* A capture whose second line has only a bare run of 70 hex digits and
\* whose third line has the labeled key: the key is the first 64 digits of
\* the bare run; the serial number is the bare token of the first line.
C31_Witness ==
  /\ pc = "read_loop"
  /\ rd.output_lines = <<LineBareSerial, LineBareKey, LineKey>>
  /\ KeyLabeled(LineBareKey) = {}
  /\ KeyLabeled(LineKey) # {}
  /\ rd.public_key = [hex |-> "b", len |-> 64]
  /\ rd.public_key # KeyMatch(LineKey)
  /\ rd.device_id = "zap-00aa"

\* C32, as stated: once a device has been detected, its cycle eventually
\* reaches the disconnect wait with its result in the list.
C32_AsStated ==
  pc \in InCycle ~> (pc = "wait_disconnect"
                       /\ Len(all_results) = device_number)

\* C32: once a device has been detected, its cycle eventually reaches the
\* disconnect wait with its result in the list, unless the operator
\* interrupts the run before, in which case the run goes to the summary;
\* and the disconnect wait eventually resolves, back to the wait for the
\* next device or to the end of the run.
C32_CycleAndWaitEnd ==
  /\ pc \in InCycle ~> \/ /\ pc = "wait_disconnect"
                          /\ Len(all_results) = device_number
                       \/ stop.why = "interrupt"
  /\ pc = "wait_disconnect" ~> \/ pc = "wait_connect"
                               \/ stop.why \in {"timeout", "interrupt"}
  /\ stop # Running ~> pc = "done"

\* The second device's cycle has produced its result and the run is in the
\* disconnect wait, which has used up its polls: the timeout is next.
C32_Witness ==
  /\ pc = "wait_disconnect"
  /\ device_number = 2
  /\ Len(all_results) = 2
  /\ polls = MaxDisconnectPolls
  /\ stop = Running

====
